---- MODULE Spec2Model ----
(***************************************************************************)
(* The bibliometrics pipeline: etl/refresh.py and recover.py (fetch, raw   *)
(* checkpoint, transform, edge tables, processed files), etl/load.py (the  *)
(* parquet files and load_all), dashboard/callbacks.py (apply_filters and   *)
(* the callbacks) and dashboard/components (what the views compute).       *)
(*                                                                         *)
(* Python values.  An optional value (one that may be None) is a sequence: *)
(* <<>> is None and <<v>> is the value v.  A dict is a function from its   *)
(* keys, so a key can be absent.  A string that the code splits on "/" is  *)
(* the sequence of its segments.  A DataFrame built from uniform dicts is  *)
(* the sequence of its rows; it has no columns exactly when it is empty.   *)
(***************************************************************************)
EXTENDS Integers, Sequences, FiniteSets, TLC

VARIABLES
    disk,          \* file name -> <<>> (no such file) or <<table>> (data/raw, data/processed)
    engine,        \* the parquet engine pandas picks in this installation
    job,           \* the running (or last) full_refresh / run_recovery process
    runs,          \* how many ETL processes have been started
    checkpointOf,  \* the record list whose save_raw wrote works_raw.parquet
    dash,          \* the dashboard process: import position, loaded tables
    call           \* the callback invocation in flight: its inputs, slice and result

vars == <<disk, engine, job, runs, checkpointOf, dash, call>>

----------------------------------------------------------------------------
(* Bounds *)

MaxWorks == 2      \* records in one API answer
MaxRuns == 2       \* ETL processes started in one behaviour

----------------------------------------------------------------------------
(* Python helpers *)

None == <<>>
Some(v) == <<v>>
IsNone(x) == x = <<>>
Val(x) == x[1]
EmptyDict == <<>>

\* d.get(k, default)
Get(d, k, default) == IF k \in DOMAIN d THEN d[k] ELSE default

\* {**f, **g}
Merge(f, g) == [k \in (DOMAIN f) \cup (DOMAIN g) |-> IF k \in DOMAIN g THEN g[k] ELSE f[k]]

Range(s) == {s[i] : i \in 1..Len(s)}

RECURSIVE Concat(_)
Concat(ss) == IF ss = <<>> THEN <<>> ELSE Head(ss) \o Concat(Tail(ss))

\* the sequences over S of length at most n
SeqsUpTo(S, n) == UNION {[1..k -> S] : k \in 0..n}

\* every order in which list(set(...)) can enumerate the set S: the order of
\* a set of strings depends on the process's hash seed
Orderings(S) == {p \in [1..Cardinality(S) -> S] : \A i, j \in 1..Cardinality(S) : i # j => p[i] # p[j]}

----------------------------------------------------------------------------
(* etl/extract.py, etl/transform.py: constants *)

UOFT_ID == "I185261750"
UOFT_NAME == "University of Toronto"
TOP_N == 5

\* "https://openalex.org/<tail>".split("/")
OpenAlexUrl(tail) == <<"https:", "", "openalex.org", tail>>

----------------------------------------------------------------------------
(* The records the API can answer with *)

Institution(tail, name, country) ==
    [id |-> Some(OpenAlexUrl(tail)), display_name |-> Some(name),
     country_code |-> country, ror |-> None]

UofT == Institution(UOFT_ID, UOFT_NAME, Some("CA"))
MIT == Institution("I63966007", "MIT", Some("US"))
McGill == Institution("I5023651", "McGill University", Some("CA"))
Vector == Institution("I4210", "Vector Institute", None)
\* an affiliation OpenAlex could not resolve: no id, no country
Unresolved == [id |-> None, display_name |-> Some("Unknown Lab"), country_code |-> Some("US"), ror |-> None]

Author(insts) == [institutions |-> insts]

AuthorshipLists ==
    { <<>>,
      <<Author(<<UofT>>)>>,
      <<Author(<<UofT>>), Author(<<MIT>>)>>,
      <<Author(<<UofT>>), Author(<<MIT>>), Author(<<MIT>>)>>,
      <<Author(<<UofT, MIT>>), Author(<<McGill>>)>>,
      <<Author(<<UofT>>), Author(<<Vector>>)>>,
      <<Author(<<UofT, McGill>>), Author(<<Unresolved>>)>> }

Concept(name, level, score) == [display_name |-> Some(name), level |-> Some(level), score |-> Some(score)]

Biology == Concept("Biology", 0, 80)
Genetics == Concept("Genetics", 1, 60)
CompSci == Concept("Computer science", 0, 90)

\* every key that fetch_works selects and transform_works reads
BaseWork(id, year, type, cited) ==
    [id |-> Some(id), title |-> Some("t"), publication_year |-> year, type |-> type,
     cited_by_count |-> Some(cited),
     primary_location |-> Some([source |-> Some([display_name |-> Some("Nature")])])]

WorkA == Merge(BaseWork("W1", Some(2020), Some("article"), 10),
               [open_access |-> Some([is_oa |-> Some(TRUE), oa_status |-> Some("gold")]),
                concepts |-> Some(<<Genetics, Biology>>),
                authorships |-> Some(<<Author(<<UofT>>), Author(<<MIT>>), Author(<<MIT>>)>>)])

WorkB == Merge(BaseWork("W2", Some(2021), Some("preprint"), 0),
               [open_access |-> Some([is_oa |-> Some(FALSE), oa_status |-> Some("closed")]),
                concepts |-> Some(<<CompSci>>),
                authorships |-> Some(<<Author(<<UofT, MIT>>), Author(<<McGill>>)>>)])

\* a record that lacks the open_access and concepts keys
WorkC == Merge(BaseWork("W3", Some(2021), Some("article"), 4),
               [authorships |-> Some(<<Author(<<UofT>>)>>)])

\* a record with nulls: no year, no type, is_oa null, no concepts
WorkD == Merge(BaseWork("W4", None, None, 2),
               [open_access |-> Some([is_oa |-> None, oa_status |-> None]),
                concepts |-> Some(<<>>),
                authorships |-> Some(<<Author(<<UofT>>), Author(<<Vector>>)>>)])

\* a record whose open_access is null: transform_works raises on it
WorkE == Merge(BaseWork("W5", Some(2022), Some("article"), 0),
               [open_access |-> None,
                concepts |-> Some(<<Biology>>),
                authorships |-> Some(<<Author(<<UofT>>), Author(<<McGill>>)>>)])

\* the works the dashboard specification is loaded with
Catalogue == {WorkA, WorkB, WorkC, WorkD}

\* the works the API serves in the ETL specification
ApiCorpus == {WorkA, WorkC, WorkE}

\* works that differ in id and authorships, for the transform specification
AuthorshipFields == {[authorships |-> Some(l)] : l \in AuthorshipLists}
                        \cup {[authorships |-> None], EmptyDict}

TransformCorpus ==
    {Merge(Merge(BaseWork(id, Some(2020), Some("article"), 1),
                 [open_access |-> Some([is_oa |-> Some(TRUE), oa_status |-> Some("gold")]),
                  concepts |-> Some(<<Biology>>)]), f) :
        id \in {"W1", "W2"}, f \in AuthorshipFields}

----------------------------------------------------------------------------
(* etl/transform.py *)

\* a Python list held in a DataFrame cell; read back from parquet it may be
\* a numpy array instead (ReadParquet)
PyList(items) == [kind |-> "list", items |-> items]

\* the sort key of extract_concepts: x.get("score", 0)
ScoreKey(c) == Val(Get(c, "score", Some(0)))

\* x placed behind every element whose key is at least its own: what a stable
\* descending sort does with the element that came last in the input
RECURSIVE InsertDesc(_, _)
InsertDesc(s, x) ==
    IF s = <<>> THEN <<x>>
    ELSE IF ScoreKey(Head(s)) >= ScoreKey(x) THEN <<Head(s)>> \o InsertDesc(Tail(s), x)
    ELSE <<x>> \o s

\* sorted(concepts, key=score, reverse=True): stable
RECURSIVE SortedByScore(_)
SortedByScore(s) ==
    IF s = <<>> THEN <<>>
    ELSE InsertDesc(SortedByScore(SubSeq(s, 1, Len(s) - 1)), s[Len(s)])

\* extract_concepts taking the first top_n concepts as they come
extract_concepts_unsorted(concepts, top_n) ==
    IF IsNone(concepts) \/ Len(Val(concepts)) = 0 THEN <<>>
    ELSE LET top == SubSeq(Val(concepts), 1, IF Len(Val(concepts)) < top_n THEN Len(Val(concepts)) ELSE top_n)
         IN  [i \in 1..Len(top) |->
                [name |-> Get(top[i], "display_name", None),
                 level |-> Get(top[i], "level", None),
                 score |-> Get(top[i], "score", None)]]

\* transform.py:3-24
extract_concepts(concepts, top_n) ==
    IF IsNone(concepts) \/ Len(Val(concepts)) = 0 THEN <<>>
    ELSE LET sorted_concepts == SortedByScore(Val(concepts))
             top == SubSeq(sorted_concepts, 1, IF Len(sorted_concepts) < top_n THEN Len(sorted_concepts) ELSE top_n)
         IN  [i \in 1..Len(top) |->
                [name |-> Get(top[i], "display_name", None),
                 level |-> Get(top[i], "level", None),
                 score |-> Get(top[i], "score", None)]]

\* IdTail taking the first segment of the id, split("/")[0]
IdTail_first_segment(inst) ==
    LET inst_id == Get(inst, "id", None)
    IN  IF IsNone(inst_id) THEN "" ELSE Val(inst_id)[1]

\* (inst.get("id") or "").split("/")[-1]
IdTail(inst) ==
    LET inst_id == Get(inst, "id", None)
    IN  IF IsNone(inst_id) THEN "" ELSE Val(inst_id)[Len(Val(inst_id))]

\* every institution entry of every authorship, in order
AllInstitutions(authorships) ==
    IF IsNone(authorships) THEN <<>>
    ELSE Concat([i \in 1..Len(Val(authorships)) |-> Get(Val(authorships)[i], "institutions", <<>>)])

\* IsExternal without the exclusion of the home institution
IsExternal_nobody_excluded(inst, exclude_id) == TRUE

IsExternal(inst, exclude_id) == IdTail(inst) # exclude_id

\* the set that extract_countries turns into a list
extract_countries_set(authorships, exclude_institution_id) ==
    {Val(inst.country_code) : inst \in
        {i \in Range(AllInstitutions(authorships)) :
            IsExternal(i, exclude_institution_id) /\ ~IsNone(Get(i, "country_code", None))}}

extract_institutions(authorships, exclude_id) ==
    LET ext == SelectSeq(AllInstitutions(authorships), LAMBDA i : IsExternal(i, exclude_id))
    IN  [k \in 1..Len(ext) |->
            [name |-> Get(ext[k], "display_name", None),
             country |-> Get(ext[k], "country_code", None),
             ror |-> Get(ext[k], "ror", None),
             openalex_id |-> Get(ext[k], "id", None)]]

\* the exception the loop body of transform_works raises on w, <<>> if none:
\* None.get(...) for a null open_access, len(None) for null authorships
RowError(w) ==
    IF IsNone(Get(w, "open_access", Some(EmptyDict))) THEN <<"AttributeError">>
    ELSE IF IsNone(Get(w, "authorships", Some(<<>>))) THEN <<"TypeError">>
    ELSE <<>>

\* x or {}
OrEmptyDict(x) == IF IsNone(x) THEN EmptyDict ELSE Val(x)

\* the row transform_works appends for w, its collab_countries in the order countries
WorkRow(w, countries) ==
    LET top_concepts_list == extract_concepts(Get(w, "concepts", Some(<<>>)), TOP_N)
        primary_loc == OrEmptyDict(Get(w, "primary_location", None))
        source_dict == OrEmptyDict(Get(primary_loc, "source", None))
        open_access == Val(Get(w, "open_access", Some(EmptyDict)))
    IN  [id |-> Get(w, "id", None),
         title |-> Get(w, "title", None),
         year |-> Get(w, "publication_year", None),
         type |-> Get(w, "type", None),
         is_oa |-> Get(open_access, "is_oa", None),
         oa_status |-> Get(open_access, "oa_status", None),
         cited_by_count |-> Get(w, "cited_by_count", Some(0)),
         top_concept |-> IF top_concepts_list # <<>> THEN top_concepts_list[1].name ELSE None,
         concept_level |-> IF top_concepts_list # <<>> THEN top_concepts_list[1].level ELSE None,
         all_top_concepts |-> PyList(top_concepts_list),
         collab_countries |-> PyList(countries),
         collab_institutions |-> PyList(extract_institutions(Get(w, "authorships", Some(<<>>)), UOFT_ID)),
         author_count |-> Len(Val(Get(w, "authorships", Some(<<>>)))),
         source_name |-> Get(source_dict, "display_name", None)]

\* the rows transform_works can build for w: one per order of list(set(countries))
WorkRows(w) ==
    {WorkRow(w, p) : p \in Orderings(extract_countries_set(Get(w, "authorships", Some(<<>>)), UOFT_ID))}

\* the exception transform_works raises on raw_works, <<>> if none
transform_error(raw_works) ==
    LET bad == {i \in 1..Len(raw_works) : RowError(raw_works[i]) # <<>>}
    IN  IF bad = {} THEN <<>>
        ELSE RowError(raw_works[CHOOSE i \in bad : \A j \in bad : i <= j])

\* the DataFrames transform_works can return
RECURSIVE transform_works(_)
transform_works(raw_works) ==
    IF raw_works = <<>> THEN {<<>>}
    ELSE {<<r>> \o rest : r \in WorkRows(Head(raw_works)), rest \in transform_works(Tail(raw_works))}

build_country_edges(df) ==
    Concat([i \in 1..Len(df) |->
        [k \in 1..Len(df[i].collab_countries.items) |->
            [work_id |-> df[i].id,
             year |-> df[i].year,
             country_code |-> df[i].collab_countries.items[k],
             top_concept |-> df[i].top_concept,
             all_top_concepts |-> df[i].all_top_concepts]]])

\* build_institution_edges reading the wrong column into work_id
build_institution_edges_wrong_column(df) ==
    Concat([i \in 1..Len(df) |->
        [k \in 1..Len(df[i].collab_institutions.items) |->
            [source |-> UOFT_NAME,
             target |-> df[i].collab_institutions.items[k].name,
             target_country |-> df[i].collab_institutions.items[k].country,
             year |-> df[i].year,
             work_id |-> df[i].title,
             top_concept |-> df[i].top_concept,
             all_top_concepts |-> df[i].all_top_concepts]]])

build_institution_edges(df) ==
    Concat([i \in 1..Len(df) |->
        [k \in 1..Len(df[i].collab_institutions.items) |->
            [source |-> UOFT_NAME,
             target |-> df[i].collab_institutions.items[k].name,
             target_country |-> df[i].collab_institutions.items[k].country,
             year |-> df[i].year,
             work_id |-> df[i].id,
             top_concept |-> df[i].top_concept,
             all_top_concepts |-> df[i].all_top_concepts]]])

----------------------------------------------------------------------------
(* etl/load.py: the files *)

RAW_DIR == <<"data", "raw">>
PROCESSED_DIR == <<"data", "processed">>

RAW_FILE == "works_raw.parquet"
WORKS_FILE == "works.parquet"
COUNTRY_FILE == "country_edges.parquet"
INSTITUTION_FILE == "institution_edges.parquet"

ProcessedFiles == <<WORKS_FILE, COUNTRY_FILE, INSTITUTION_FILE>>

Paths == {RAW_DIR \o <<RAW_FILE>>} \cup {PROCESSED_DIR \o <<ProcessedFiles[i]>> : i \in 1..3}

Engines == {"pyarrow", "fastparquet"}

\* the columns of the processed tables that hold a Python list per row
ListColumns == {"all_top_concepts", "collab_countries", "collab_institutions"}

\* pd.DataFrame(list of dicts): one column per key that occurs in any record,
\* a record without the key gets a null there
AllKeys(raw_works) == UNION {DOMAIN raw_works[i] : i \in 1..Len(raw_works)}

RawFrame(raw_works) ==
    [i \in 1..Len(raw_works) |->
        [k \in AllKeys(raw_works) |-> Get(raw_works[i], k, None)]]

\* what holds the elements of a list column after pd.read_parquet: pyarrow
\* hands back a numpy array, fastparquet (JSON object encoding) a list
CellKind(eng) == IF eng = "pyarrow" THEN "ndarray" ELSE "list"

\* df.to_parquet(path) followed by pd.read_parquet(path) under engine eng
ReadParquet(table, eng) ==
    [i \in 1..Len(table) |->
        [k \in DOMAIN table[i] |->
            IF k \in ListColumns THEN [kind |-> CellKind(eng), items |-> table[i][k].items]
            ELSE table[i][k]]]

\* save_raw losing the last record of the answer
save_raw_truncated(d, raw_works, filename) ==
    [d EXCEPT ![RAW_DIR \o <<filename>>] =
        Some(RawFrame(SubSeq(raw_works, 1, Len(raw_works) - 1)))]

save_raw(d, raw_works, filename) ==
    [d EXCEPT ![RAW_DIR \o <<filename>>] = Some(RawFrame(raw_works))]

save_processed(d, df, filename) ==
    [d EXCEPT ![PROCESSED_DIR \o <<filename>>] = Some(df)]

NoError == <<>>

FileNotFound(path) ==
    Some([exc |-> "FileNotFoundError", path |-> path,
          advice |-> "not found. Run etl/refresh.py first to build the data cache."])

\* load_processed answering a missing file with an empty table
load_processed_lenient(d, eng, filename) ==
    LET path == PROCESSED_DIR \o <<filename>>
    IN  IF IsNone(d[path]) THEN [error |-> NoError, df |-> <<>>]
        ELSE [error |-> NoError, df |-> ReadParquet(Val(d[path]), eng)]

\* load_processed: the exception raised (NoError if none) and the table read
load_processed(d, eng, filename) ==
    LET path == PROCESSED_DIR \o <<filename>>
    IN  IF IsNone(d[path]) THEN [error |-> FileNotFound(path), df |-> <<>>]
        ELSE [error |-> NoError, df |-> ReadParquet(Val(d[path]), eng)]

\* load_all: the first exception of the three loads, in order, or the three
\* tables (astype("category") changes a column's dtype, not its values)
load_all(d, eng) ==
    LET works == load_processed(d, eng, WORKS_FILE)
        country_edges == load_processed(d, eng, COUNTRY_FILE)
        institution_edges == load_processed(d, eng, INSTITUTION_FILE)
    IN  IF works.error # NoError THEN [error |-> works.error, tables |-> <<>>]
        ELSE IF country_edges.error # NoError THEN [error |-> country_edges.error, tables |-> <<>>]
        ELSE IF institution_edges.error # NoError THEN [error |-> institution_edges.error, tables |-> <<>>]
        ELSE [error |-> NoError, tables |-> <<works.df, country_edges.df, institution_edges.df>>]

----------------------------------------------------------------------------
(* etl/refresh.py, recover.py: the ETL process *)

NoJob == [kind |-> "none", pc |-> "idle", raw |-> <<>>, df |-> <<>>, country_df |-> <<>>,
          inst_df |-> <<>>, fetch_calls |-> 0, failed_at |-> "", error |-> ""]

Stopped == job.pc \in {"idle", "done", "failed"}

\* python etl/refresh.py
StartRefresh ==
    /\ Stopped
    /\ runs < MaxRuns
    /\ job' = [NoJob EXCEPT !.kind = "refresh", !.pc = "fetch"]
    /\ runs' = runs + 1
    /\ UNCHANGED <<disk, engine, checkpointOf, dash, call>>

\* python recover.py
StartRecovery ==
    /\ Stopped
    /\ runs < MaxRuns
    /\ job' = [NoJob EXCEPT !.kind = "recovery", !.pc = "read_raw"]
    /\ runs' = runs + 1
    /\ UNCHANGED <<disk, engine, checkpointOf, dash, call>>

\* refresh.py:8  raw = fetch_works(start_year=2020): whatever the API holds
FetchWorks(corpus) ==
    /\ job.pc = "fetch"
    /\ \E answer \in SeqsUpTo(corpus, MaxWorks) :
          job' = [job EXCEPT !.raw = answer, !.fetch_calls = @ + 1, !.pc = "save_raw"]
    /\ UNCHANGED <<disk, engine, runs, checkpointOf, dash, call>>

\* refresh.py:12  save_raw(raw, "works_raw.parquet")
SaveRaw ==
    /\ job.pc = "save_raw"
    /\ disk' = save_raw(disk, job.raw, RAW_FILE)
    /\ checkpointOf' = job.raw
    /\ job' = [job EXCEPT !.pc = "transform"]
    /\ UNCHANGED <<engine, runs, dash, call>>

\* recover.py:10-13  raw_df = pd.read_parquet(...); raw_works = raw_df.to_dict("records")
ReadRaw ==
    /\ job.pc = "read_raw"
    /\ IF IsNone(disk[RAW_DIR \o <<RAW_FILE>>])
       THEN job' = [job EXCEPT !.pc = "failed", !.failed_at = "read_raw", !.error = "FileNotFoundError"]
       ELSE job' = [job EXCEPT !.raw = Val(disk[RAW_DIR \o <<RAW_FILE>>]), !.pc = "transform"]
    /\ UNCHANGED <<disk, engine, runs, checkpointOf, dash, call>>

\* TransformWorks with save_processed(df, "works.parquet") moved up to right
\* after transform_works
TransformWorks_saves_early ==
    /\ job.pc = "transform"
    /\ IF transform_error(job.raw) # <<>>
       THEN /\ job' = [job EXCEPT !.pc = "failed", !.failed_at = "transform",
                                  !.error = Val(transform_error(job.raw))]
            /\ disk' = disk
       ELSE \E df \in transform_works(job.raw) :
               /\ job' = [job EXCEPT !.df = df, !.pc = "build_country"]
               /\ disk' = save_processed(disk, df, WORKS_FILE)
    /\ UNCHANGED <<engine, runs, checkpointOf, dash, call>>

\* refresh.py:16, recover.py:16  df = transform_works(raw)
TransformWorks ==
    /\ job.pc = "transform"
    /\ IF transform_error(job.raw) # <<>>
       THEN job' = [job EXCEPT !.pc = "failed", !.failed_at = "transform",
                               !.error = Val(transform_error(job.raw))]
       ELSE \E df \in transform_works(job.raw) :
               job' = [job EXCEPT !.df = df, !.pc = "build_country"]
    /\ UNCHANGED <<disk, engine, runs, checkpointOf, dash, call>>

\* refresh.py:17, recover.py:17
BuildCountryEdges ==
    /\ job.pc = "build_country"
    /\ job' = [job EXCEPT !.country_df = build_country_edges(job.df), !.pc = "build_inst"]
    /\ UNCHANGED <<disk, engine, runs, checkpointOf, dash, call>>

\* refresh.py:18, recover.py:18
BuildInstitutionEdges ==
    /\ job.pc = "build_inst"
    /\ job' = [job EXCEPT !.inst_df = build_institution_edges(job.df), !.pc = "save_works"]
    /\ UNCHANGED <<disk, engine, runs, checkpointOf, dash, call>>

\* refresh.py:20, recover.py:21
SaveWorks ==
    /\ job.pc = "save_works"
    /\ disk' = save_processed(disk, job.df, WORKS_FILE)
    /\ job' = [job EXCEPT !.pc = "save_country"]
    /\ UNCHANGED <<engine, runs, checkpointOf, dash, call>>

\* refresh.py:21, recover.py:22
SaveCountryEdges ==
    /\ job.pc = "save_country"
    /\ disk' = save_processed(disk, job.country_df, COUNTRY_FILE)
    /\ job' = [job EXCEPT !.pc = "save_inst"]
    /\ UNCHANGED <<engine, runs, checkpointOf, dash, call>>

\* refresh.py:22, recover.py:23
SaveInstitutionEdges ==
    /\ job.pc = "save_inst"
    /\ disk' = save_processed(disk, job.inst_df, INSTITUTION_FILE)
    /\ job' = [job EXCEPT !.pc = "done"]
    /\ UNCHANGED <<engine, runs, checkpointOf, dash, call>>

\* the call the process is about to make fails for a reason outside the data
\* (the API is unreachable, the disk is full, the process is killed): nothing
\* in refresh.py or recover.py catches an exception
Crash ==
    /\ ~Stopped
    /\ job' = [job EXCEPT !.pc = "failed", !.failed_at = job.pc, !.error = "killed"]
    /\ UNCHANGED <<disk, engine, runs, checkpointOf, dash, call>>

DashDown == [pc |-> "down", error |-> NoError, years |-> {}, concepts |-> {},
             works |-> <<>>, country_edges |-> <<>>, institution_edges |-> <<>>]

NoCall == <<>>

Init ==
    /\ disk = [p \in Paths |-> None]
    /\ engine \in Engines
    /\ job = NoJob
    /\ runs = 0
    /\ checkpointOf = <<>>
    /\ dash = DashDown
    /\ call = NoCall

Next ==
    \/ StartRefresh
    \/ StartRecovery
    \/ FetchWorks(ApiCorpus)
    \/ SaveRaw
    \/ ReadRaw
    \/ TransformWorks
    \/ BuildCountryEdges
    \/ BuildInstitutionEdges
    \/ SaveWorks
    \/ SaveCountryEdges
    \/ SaveInstitutionEdges
    \/ Crash

Spec == Init /\ [][Next]_vars

----------------------------------------------------------------------------
(* The transform stage on its own: a refresh that has fetched and            *)
(* checkpointed some answer and is about to transform it                     *)

TransformInit ==
    /\ engine \in Engines
    /\ \E answer \in SeqsUpTo(TransformCorpus, MaxWorks) :
          /\ job = [NoJob EXCEPT !.kind = "refresh", !.pc = "transform",
                                 !.raw = answer, !.fetch_calls = 1]
          /\ disk = save_raw([p \in Paths |-> None], answer, RAW_FILE)
          /\ checkpointOf = answer
    /\ runs = 1
    /\ dash = DashDown
    /\ call = NoCall

TransformNext ==
    \/ TransformWorks
    \/ BuildCountryEdges
    \/ BuildInstitutionEdges

SpecTransform == TransformInit /\ [][TransformNext]_vars

----------------------------------------------------------------------------
(* Claims about the transform stage (SpecTransform) *)

WorkIdsOf(df) == {df[i].id : i \in 1..Len(df)}

CountryEdgesBuilt == job.pc \in {"build_inst", "save_works"}
InstitutionEdgesBuilt == job.pc = "save_works"

\* C1: every row of build_country_edges(df) and of build_institution_edges(df)
\* carries a work_id that is the id of some row of df
C1_EdgesReferenceWorks ==
    /\ CountryEdgesBuilt =>
          \A k \in 1..Len(job.country_df) : job.country_df[k].work_id \in WorkIdsOf(job.df)
    /\ InstitutionEdgesBuilt =>
          \A k \in 1..Len(job.inst_df) : job.inst_df[k].work_id \in WorkIdsOf(job.df)

\* both edge tables are non-empty and the works table has two different ids
C1_Witness ==
    /\ InstitutionEdgesBuilt
    /\ Len(job.country_df) > 0
    /\ Len(job.inst_df) > 0
    /\ Cardinality(WorkIdsOf(job.df)) = 2

\* the institution entries of raw work w that are not the home institution
ExternalEntries(w) ==
    LET authorships == Get(w, "authorships", Some(<<>>))
    IN  {inst \in UNION {Range(a.institutions) : a \in Range(Val(authorships))} :
            inst.id # Some(OpenAlexUrl(UOFT_ID))}

\* the distinct country codes carried by a non-home institution of w
CollaboratingCountries(w) ==
    {Val(inst.country_code) : inst \in {e \in ExternalEntries(w) : e.country_code # None}}

\* the distinct non-home institutions of w, by name
CollaboratingInstitutions(w) == {inst.display_name : inst \in ExternalEntries(w)}

RawRowsWith(id, Has(_)) == {i \in 1..Len(job.raw) : job.raw[i].id = id /\ Has(job.raw[i])}

\* C6: the country edge table has exactly one row per (work row, distinct
\* collaborating country) pair and no other row
C6_OneRowPerWorkCountry ==
    CountryEdgesBuilt =>
        \A id \in WorkIdsOf(job.df) \cup {e.work_id : e \in Range(job.country_df)} :
        \A c \in {"CA", "US"} \cup {e.country_code : e \in Range(job.country_df)} :
            Cardinality({k \in 1..Len(job.country_df) :
                            job.country_df[k].work_id = id /\ job.country_df[k].country_code = c})
              = Cardinality(RawRowsWith(id, LAMBDA w : c \in CollaboratingCountries(w)))

\* a work whose external institutions repeat a country (two MIT authors, or
\* a home author beside them) has its single row for that country
C6_Witness ==
    /\ CountryEdgesBuilt
    /\ \E i \in 1..Len(job.raw) :
          /\ Len(AllInstitutions(Get(job.raw[i], "authorships", Some(<<>>)))) >= 3
          /\ \E k \in 1..Len(job.country_df) : job.country_df[k].work_id = job.raw[i].id

\* C7 as claimed: the institution edge table has exactly one row per (work
\* row, distinct collaborating institution) pair, also when several authors
\* of the work share the institution
C7_OneRowPerWorkInstitution ==
    InstitutionEdgesBuilt =>
        \A id \in WorkIdsOf(job.df) \cup {e.work_id : e \in Range(job.inst_df)} :
        \A t \in {e.target : e \in Range(job.inst_df)} :
            Cardinality({k \in 1..Len(job.inst_df) :
                            job.inst_df[k].work_id = id /\ job.inst_df[k].target = t})
              = Cardinality(RawRowsWith(id, LAMBDA w : t \in CollaboratingInstitutions(w)))

\* the institution entries of w that are not the home institution, one per
\* occurrence, in order
ExternalOccurrences(w) ==
    SelectSeq(AllInstitutions(Get(w, "authorships", Some(<<>>))),
              LAMBDA inst : inst.id # Some(OpenAlexUrl(UOFT_ID)))

HomeOnly(w) ==
    /\ AllInstitutions(Get(w, "authorships", Some(<<>>))) # <<>>
    /\ ExternalOccurrences(w) = <<>>

\* C18: the institution edges are, work by work, the non-home institution
\* entries of the raw record and nothing else, each with source 'University
\* of Toronto' and never with the home institution as target; the country
\* edges are the countries of those entries; a work whose authorships list
\* only the home institution has no edge of either kind
C18_EdgesOnlyToExternal ==
    InstitutionEdgesBuilt =>
        /\ job.inst_df =
              Concat([i \in 1..Len(job.raw) |->
                  [k \in 1..Len(ExternalOccurrences(job.raw[i])) |->
                      [source |-> UOFT_NAME,
                       target |-> ExternalOccurrences(job.raw[i])[k].display_name,
                       target_country |-> ExternalOccurrences(job.raw[i])[k].country_code,
                       year |-> job.df[i].year, work_id |-> job.raw[i].id,
                       top_concept |-> job.df[i].top_concept,
                       all_top_concepts |-> job.df[i].all_top_concepts]]])
        /\ \A e \in Range(job.inst_df) : e.source = UOFT_NAME /\ e.target # Some(UOFT_NAME)
        /\ \A k \in 1..Len(job.country_df) :
              \E i \in 1..Len(job.raw) :
                  /\ job.raw[i].id = job.country_df[k].work_id
                  /\ job.country_df[k].country_code \in CollaboratingCountries(job.raw[i])
        /\ \A i \in 1..Len(job.raw) :
              (HomeOnly(job.raw[i]) /\ \A j \in 1..Len(job.raw) : job.raw[j].id = job.raw[i].id => HomeOnly(job.raw[j]))
                  => /\ \A e \in Range(job.inst_df) : e.work_id # job.raw[i].id
                     /\ \A e \in Range(job.country_df) : e.work_id # job.raw[i].id

\* a work of the home institution alone beside a work with a partner from
\* the home institution's own country
C18_Witness ==
    /\ InstitutionEdgesBuilt
    /\ \E i \in 1..Len(job.raw) : HomeOnly(job.raw[i])
    /\ \E e \in Range(job.country_df) : e.country_code = "CA"
    /\ job.inst_df # <<>>

\* the nested fields of record w that are absent or null
NullFields(w) ==
    {k \in {"concepts", "authorships", "primary_location", "open_access"} : IsNone(Get(w, k, None))}

\* C16 as claimed: transform_works raises on no record whose concepts,
\* authorships, primary_location or open_access is absent or None; it emits
\* one row per raw record, in input order, the row of such a record with
\* empty lists, None values and author_count 0
C16_NullFieldsTolerated ==
    job.pc # "transform" =>
        /\ job.pc # "failed"
        /\ Len(job.df) = Len(job.raw)
        /\ \A i \in 1..Len(job.raw) :
              /\ job.df[i].id = job.raw[i].id
              /\ "authorships" \in NullFields(job.raw[i]) =>
                    /\ job.df[i].author_count = 0
                    /\ job.df[i].collab_countries.items = <<>>
                    /\ job.df[i].collab_institutions.items = <<>>

----------------------------------------------------------------------------
(* Claims about the ETL processes (Spec) *)

RawPath == RAW_DIR \o <<RAW_FILE>>
PathOf(filename) == PROCESSED_DIR \o <<filename>>

TransformStages == {"transform", "build_country", "build_inst"}

\* C2: in a full_refresh the raw checkpoint is completely written before
\* transform_works starts and fetch_works has been called exactly once; so
\* where the transform or an edge build has failed, works_raw.parquet holds
\* the records of that run's fetch
C2_CheckpointBeforeTransform ==
    job.kind = "refresh" =>
        /\ job.fetch_calls = (IF job.pc = "fetch" \/ job.failed_at = "fetch" THEN 0 ELSE 1)
        /\ (job.pc \in TransformStages \/ (job.pc = "failed" /\ job.failed_at \in TransformStages)) =>
              /\ disk[RawPath] = Some(RawFrame(job.raw))
              /\ Len(Val(disk[RawPath])) = Len(job.raw)
              /\ checkpointOf = job.raw

\* a second refresh, whose transform raised on a two-record answer that is
\* not the one the first refresh checkpointed
C2_Witness ==
    /\ job.kind = "refresh"
    /\ job.pc = "failed"
    /\ job.failed_at = "transform"
    /\ job.error = "AttributeError"
    /\ Len(job.raw) = 2
    /\ runs = 2

\* the processed tables a full_refresh can write from the answer raw_works
RefreshOutputs(raw_works) ==
    {<<df, build_country_edges(df), build_institution_edges(df)>> : df \in transform_works(raw_works)}

OnDisk == <<disk[PathOf(WORKS_FILE)], disk[PathOf(COUNTRY_FILE)], disk[PathOf(INSTITUTION_FILE)]>>

\* C3 as claimed: for a checkpointed answer R on which transform_works does
\* not raise, run_recovery raises nothing either and leaves on disk tables
\* that full_refresh can write from R
C3_RecoveryEqualsRefresh ==
    (job.kind = "recovery" /\ job.pc \in {"done", "failed"}
        /\ disk[RawPath] # None /\ transform_error(checkpointOf) = <<>>) =>
            /\ job.pc = "failed" => job.error = "killed"
            /\ job.pc = "done" =>
                  \E out \in RefreshOutputs(checkpointOf) :
                      OnDisk = <<Some(out[1]), Some(out[2]), Some(out[3])>>

PersistedWorkIds == WorkIdsOf(Val(disk[PathOf(WORKS_FILE)]))

\* C5 as claimed: whenever no ETL process is running (each one completed or
\* failed at some step), every persisted edge row's work_id is the id of a
\* row of the persisted works file
C5_ProcessedFilesAgree ==
    (Stopped /\ \A i \in 1..3 : disk[PathOf(ProcessedFiles[i])] # None) =>
        /\ \A e \in Range(Val(disk[PathOf(COUNTRY_FILE)])) : e.work_id \in PersistedWorkIds
        /\ \A e \in Range(Val(disk[PathOf(INSTITUTION_FILE)])) : e.work_id \in PersistedWorkIds

\* C15: a full_refresh that fails inside fetch_works has written no file,
\* and one that fails inside transform_works, build_country_edges or
\* build_institution_edges has created or modified none of the three
\* processed files, so load_all still returns what they held before the
\* run: a refresh writes nothing up to and during the fetch, and nothing to
\* the processed files during the transform stages
C15_FailedRefreshWritesNothing ==
    [][/\ (job'.kind = "refresh" /\ (job'.pc = "fetch" \/ job.pc = "fetch")) => disk' = disk
       /\ (job.kind = "refresh" /\ job.pc \in TransformStages) =>
             /\ \A i \in 1..3 : disk'[PathOf(ProcessedFiles[i])] = disk[PathOf(ProcessedFiles[i])]
             /\ load_all(disk', engine') = load_all(disk, engine)]_vars

\* a second refresh has failed in a transform stage while the processed
\* files of the first are on disk and load
C15_Witness ==
    /\ job.kind = "refresh"
    /\ job.pc = "failed"
    /\ job.failed_at \in TransformStages
    /\ runs = 2
    /\ load_all(disk, engine).error = NoError
    /\ Len(load_all(disk, engine).tables[1]) > 0

----------------------------------------------------------------------------
(* dashboard/layout.py, dashboard/callbacks.py: the dashboard process *)

Crashed(exc) == [DashDown EXCEPT !.pc = "crashed", !.error = exc]

KeyError(column) == Some([exc |-> "KeyError", path |-> <<column>>, advice |-> ""])
ValueError == Some([exc |-> "ValueError", path |-> <<>>, advice |-> "min() arg is an empty sequence"])

\* layout.py:10  the distinct non-null years
YearsOf(works) == {Val(works[i].year) : i \in {j \in 1..Len(works) : ~IsNone(works[j].year)}}

\* layout.py:13-17  the names in the concept lists
ConceptNamesOf(works) ==
    UNION {{Val(c.name) : c \in Range(works[i].all_top_concepts.items)} : i \in 1..Len(works)}

\* app.py:12  from dashboard.layout import layout (layout.py:7-82): load_all,
\* the year list, the concept options, the slider from min(years) to max(years)
LayoutImport ==
    /\ dash.pc = "down"
    /\ LET loaded == load_all(disk, engine)
       IN  IF loaded.error # NoError THEN dash' = Crashed(loaded.error)
           ELSE IF Len(loaded.tables[1]) = 0 THEN dash' = Crashed(KeyError("year"))
           ELSE IF YearsOf(loaded.tables[1]) = {} THEN dash' = Crashed(ValueError)
           ELSE dash' = [dash EXCEPT !.pc = "layout", !.years = YearsOf(loaded.tables[1]),
                                     !.concepts = ConceptNamesOf(loaded.tables[1])]
    /\ UNCHANGED <<disk, engine, job, runs, checkpointOf, call>>

\* app.py:13  from dashboard import callbacks (callbacks.py:18): load_all again
CallbacksImport ==
    /\ dash.pc = "layout"
    /\ LET loaded == load_all(disk, engine)
       IN  IF loaded.error # NoError THEN dash' = Crashed(loaded.error)
           ELSE dash' = [dash EXCEPT !.pc = "up", !.works = loaded.tables[1],
                                     !.country_edges = loaded.tables[2],
                                     !.institution_edges = loaded.tables[3]]
    /\ UNCHANGED <<disk, engine, job, runs, checkpointOf, call>>

\* Python truth of a dropdown or checklist value: None and [] are false
Truthy(selection) == ~IsNone(selection) /\ Val(selection) # {}

\* YearMask with the two bounds exchanged
YearMask_swapped(row, year_range) ==
    ~IsNone(row.year) /\ Val(row.year) <= year_range[1] /\ Val(row.year) >= year_range[2]

\* callbacks.py:31-33  (works["year"] >= year_range[0]) & (works["year"] <= year_range[1])
YearMask(row, year_range) ==
    ~IsNone(row.year) /\ Val(row.year) >= year_range[1] /\ Val(row.year) <= year_range[2]

\* callbacks.py:38-42  any(c["name"] in selected_concepts ...) if isinstance(concept_list, list) else False
ConceptMask(row, selected_concepts) ==
    IF row.all_top_concepts.kind = "list"
    THEN \E k \in 1..Len(row.all_top_concepts.items) :
            /\ ~IsNone(row.all_top_concepts.items[k].name)
            /\ Val(row.all_top_concepts.items[k].name) \in Val(selected_concepts)
    ELSE FALSE

\* TypeMask keeping the rows whose type is not selected
TypeMask_negated(row, types) == ~IsNone(row.type) /\ Val(row.type) \notin Val(types)

\* callbacks.py:47  filtered["type"].isin(types)
TypeMask(row, types) == ~IsNone(row.type) /\ Val(row.type) \in Val(types)

\* callbacks.py:51  filtered["is_oa"] == True
OaMask(row) == row.is_oa = Some(TRUE)

\* callbacks.py:25-53
apply_filters(works, year_range, selected_concepts, types, oa) ==
    LET by_year == SelectSeq(works, LAMBDA r : YearMask(r, year_range))
        by_concept == IF Truthy(selected_concepts)
                      THEN SelectSeq(by_year, LAMBDA r : ConceptMask(r, selected_concepts))
                      ELSE by_year
        by_type == IF Truthy(types)
                   THEN SelectSeq(by_concept, LAMBDA r : TypeMask(r, types))
                   ELSE by_concept
    IN  IF ~IsNone(oa) /\ "oa" \in Val(oa)
        THEN SelectSeq(by_type, LAMBDA r : OaMask(r))
        ELSE by_type

\* what the sidebar can send
YearRanges == {<<a, b>> : a \in 2020..2022, b \in 2020..2024} \ {<<a, b>> \in (2020..2022) \X (2020..2024) : a > b}
ConceptSelections == {None} \cup {Some(S) : S \in SUBSET {"Biology", "Computer science"}}
TypeSelections == {None} \cup {Some(S) : S \in SUBSET {"article", "preprint"}}
OaSelections == {None, Some({}), Some({"oa"})}

\* a callback's call of apply_filters on the loaded works table; the server
\* is single-threaded, one request at a time
ApplyFilters ==
    /\ dash.pc = "up"
    /\ call = NoCall
    /\ \E year_range \in YearRanges, selected_concepts \in ConceptSelections,
          types \in TypeSelections, oa \in OaSelections :
          call' = Some([year_range |-> year_range, selected_concepts |-> selected_concepts,
                        types |-> types, oa |-> oa,
                        filtered |-> apply_filters(dash.works, year_range, selected_concepts, types, oa)])
    /\ UNCHANGED <<disk, engine, job, runs, checkpointOf, dash>>

\* the callback returns and its response goes out
Respond ==
    /\ call # NoCall
    /\ call' = NoCall
    /\ UNCHANGED <<disk, engine, job, runs, checkpointOf, dash>>

SaveStages == <<"save_works", "save_country", "save_inst", "done">>

\* the dashboard is started after a first full_refresh that wrote its
\* checkpoint and then the first written of its three processed files
DashInit ==
    /\ engine \in Engines
    /\ \E answer \in SeqsUpTo(Catalogue, MaxWorks), written \in 0..3 :
       \E out \in RefreshOutputs(answer) :
          /\ disk = [p \in Paths |->
                        IF p = RawPath THEN Some(RawFrame(answer))
                        ELSE IF \E i \in 1..written : p = PathOf(ProcessedFiles[i])
                             THEN Some(out[CHOOSE i \in 1..written : p = PathOf(ProcessedFiles[i])])
                             ELSE None]
          /\ job = [kind |-> "refresh", pc |-> IF written = 3 THEN "done" ELSE "failed",
                    raw |-> answer, df |-> out[1], country_df |-> out[2], inst_df |-> out[3],
                    fetch_calls |-> 1,
                    failed_at |-> IF written = 3 THEN "" ELSE SaveStages[written + 1],
                    error |-> IF written = 3 THEN "" ELSE "killed"]
          /\ checkpointOf = answer
    /\ runs = 1
    /\ dash = DashDown
    /\ call = NoCall

DashNext ==
    \/ LayoutImport
    \/ CallbacksImport
    \/ ApplyFilters
    \/ Respond

SpecDash == DashInit /\ [][DashNext]_vars

----------------------------------------------------------------------------
(* Claims about the dashboard (SpecDash) *)

MissingProcessed == {i \in 1..3 : IsNone(disk[PathOf(ProcessedFiles[i])])}
FirstMissing == CHOOSE i \in MissingProcessed : \A j \in MissingProcessed : i <= j

\* C4: load_processed raises FileNotFoundError naming the missing path with
\* the advice to run etl/refresh.py, so a dashboard started while any of
\* the three processed files is missing stops on that error with no table
\* loaded
C4_MissingFileFailsFast ==
    (dash.pc # "down" /\ MissingProcessed # {}) =>
        /\ dash.pc = "crashed"
        /\ dash.error # NoError
        /\ Val(dash.error).exc = "FileNotFoundError"
        /\ Val(dash.error).path = PathOf(ProcessedFiles[FirstMissing])
        /\ Val(dash.error).advice = "not found. Run etl/refresh.py first to build the data cache."
        /\ dash.works = <<>> /\ dash.country_edges = <<>> /\ dash.institution_edges = <<>>

\* works.parquet is there with rows, an edge file is not, and the dashboard
\* has stopped on it
C4_Witness ==
    /\ dash.pc = "crashed"
    /\ disk[PathOf(WORKS_FILE)] # None
    /\ Len(Val(disk[PathOf(WORKS_FILE)])) > 0
    /\ MissingProcessed # {}

\* the row condition of claim C8
Claimed(r, c) ==
    /\ r.year # None /\ c.year_range[1] <= Val(r.year) /\ Val(r.year) <= c.year_range[2]
    /\ (c.selected_concepts # None /\ Val(c.selected_concepts) # {}) =>
          \E e \in Range(r.all_top_concepts.items) : e.name # None /\ Val(e.name) \in Val(c.selected_concepts)
    /\ (c.types # None /\ Val(c.types) # {}) => (r.type # None /\ Val(r.type) \in Val(c.types))
    /\ (c.oa # None /\ "oa" \in Val(c.oa)) => r.is_oa = Some(TRUE)

\* C8 as claimed: apply_filters returns exactly the rows of the works table
\* that are in the year range (ends included), carry a selected concept if
\* any is selected, have a selected type if any is selected, and are open
\* access if the toggle holds 'oa'
C8_ApplyFiltersExact ==
    call # NoCall => Val(call).filtered = SelectSeq(dash.works, LAMBDA r : Claimed(r, Val(call)))

Returned(year_range, selected_concepts, types, oa) ==
    Range(apply_filters(dash.works, year_range, selected_concepts, types, oa))

\* C9: with the other filter inputs equal, every work returned for a year
\* range is returned for every range that contains it
C9_YearRangeMonotonic ==
    call # NoCall =>
        \A wider \in YearRanges :
            (wider[1] <= Val(call).year_range[1] /\ Val(call).year_range[2] <= wider[2]) =>
                Range(Val(call).filtered) \subseteq
                    Returned(wider, Val(call).selected_concepts, Val(call).types, Val(call).oa)

\* a call that returns a work, and a wider range that returns more
C9_Witness ==
    /\ call # NoCall
    /\ Val(call).filtered # <<>>
    /\ \E wider \in YearRanges :
          /\ wider[1] <= Val(call).year_range[1] /\ Val(call).year_range[2] <= wider[2]
          /\ Range(Val(call).filtered) #
                Returned(wider, Val(call).selected_concepts, Val(call).types, Val(call).oa)

\* the selections that contain the selection S
Supersets(S, selections) == {T \in selections \ {None} : Val(S) \subseteq Val(T)}

\* C10 as claimed: for any concept selection S and any type selection S, and
\* any selection that contains it, every work returned for S is returned
\* for the larger selection
C10_SelectionMonotonic ==
    call # NoCall =>
        /\ Val(call).selected_concepts # None =>
              \A T \in Supersets(Val(call).selected_concepts, ConceptSelections) :
                  Range(Val(call).filtered) \subseteq
                      Returned(Val(call).year_range, T, Val(call).types, Val(call).oa)
        /\ Val(call).types # None =>
              \A T \in Supersets(Val(call).types, TypeSelections) :
                  Range(Val(call).filtered) \subseteq
                      Returned(Val(call).year_range, Val(call).selected_concepts, T, Val(call).oa)

\* C10 amended: the same for every selection S that is not empty
C10_NonEmptySelectionMonotonic ==
    call # NoCall =>
        /\ Truthy(Val(call).selected_concepts) =>
              \A T \in Supersets(Val(call).selected_concepts, ConceptSelections) :
                  Range(Val(call).filtered) \subseteq
                      Returned(Val(call).year_range, T, Val(call).types, Val(call).oa)
        /\ Truthy(Val(call).types) =>
              \A T \in Supersets(Val(call).types, TypeSelections) :
                  Range(Val(call).filtered) \subseteq
                      Returned(Val(call).year_range, Val(call).selected_concepts, T, Val(call).oa)

\* a non-empty concept selection that returns a work while a larger one
\* returns more, over a works table on which a larger type selection returns
\* more as well
C10_Witness ==
    /\ call # NoCall
    /\ Truthy(Val(call).selected_concepts)
    /\ Val(call).filtered # <<>>
    /\ \E T \in Supersets(Val(call).selected_concepts, ConceptSelections) :
          Range(Val(call).filtered) # Returned(Val(call).year_range, T, Val(call).types, Val(call).oa)
    /\ \E S \in TypeSelections, T \in TypeSelections :
          /\ Truthy(S) /\ T \in Supersets(S, TypeSelections)
          /\ Returned(Val(call).year_range, None, S, None) # {}
          /\ Returned(Val(call).year_range, None, S, None) # Returned(Val(call).year_range, None, T, None)

----------------------------------------------------------------------------
(* dashboard/components: what the callbacks compute from the loaded tables *)

\* an institution whose country code pycountry does not list (Kosovo)
Pristina == Institution("I96673099", "University of Prishtina", Some("XK"))

\* a record without a type, written with a partner abroad and one without country
WorkF == Merge(BaseWork("W6", Some(2022), None, 1),
               [open_access |-> Some([is_oa |-> Some(TRUE), oa_status |-> Some("gold")]),
                concepts |-> Some(<<Biology>>),
                authorships |-> Some(<<Author(<<UofT>>), Author(<<Pristina, Vector>>)>>)])

\* a second record written with the partner that has no country code
WorkG == Merge(BaseWork("W7", Some(2022), Some("article"), 3),
               [open_access |-> Some([is_oa |-> Some(FALSE), oa_status |-> Some("closed")]),
                concepts |-> Some(<<CompSci>>),
                authorships |-> Some(<<Author(<<UofT>>), Author(<<Vector>>)>>)])

\* the works the view specification is loaded with
ViewCorpus == {WorkA, WorkB, WorkC, WorkF, WorkG}

\* the strings of the tables in the order Python compares them
Lexical ==
    <<"Biology", "CA", "Computer science", "Genetics", "MIT", "McGill University", "US", "University of Prishtina", "University of Toronto",
      "Unknown Lab", "Vector Institute", "XK", "article", "preprint">>

\* sorted(S)
Sorted(S) == SelectSeq(Lexical, LAMBDA x : x \in S)

\* the categories astype("category") gives a column: its non-null values, sorted
Categories(table, column) ==
    Sorted({Val(table[i][column]) : i \in {j \in 1..Len(table) : ~IsNone(table[j][column])}})

RECURSIVE SumOf(_, _)
SumOf(s, field) == IF s = <<>> THEN 0 ELSE Head(s)[field] + SumOf(Tail(s), field)

\* x placed behind the elements that sort before it or equal to it
RECURSIVE InsertBy(_, _, _, _)
InsertBy(s, x, field, ascending) ==
    IF s = <<>> THEN <<x>>
    ELSE IF (IF ascending THEN Head(s)[field] <= x[field] ELSE Head(s)[field] >= x[field])
         THEN <<Head(s)>> \o InsertBy(Tail(s), x, field, ascending)
         ELSE <<x>> \o s

\* df.sort_values(field, ascending=...), rows with equal keys kept in order
RECURSIVE sort_values(_, _, _)
sort_values(s, field, ascending) ==
    IF s = <<>> THEN <<>>
    ELSE InsertBy(sort_values(SubSeq(s, 1, Len(s) - 1), field, ascending), s[Len(s)], field, ascending)

\* df.head(n), df.iloc[n:]
head(s, n) == SubSeq(s, 1, IF Len(s) < n THEN Len(s) ELSE n)
iloc_from(s, n) == SubSeq(s, n + 1, Len(s))

\* works_df["type"].value_counts().reset_index() on the categorical column:
\* one row per category, also for a category no row of works_df has, most
\* frequent first; rows without a type are not counted
value_counts(works_df, categories) ==
    sort_values([k \in 1..Len(categories) |->
                    [type |-> categories[k],
                     count |-> Cardinality({i \in 1..Len(works_df) : works_df[i].type = Some(categories[k])})]],
                "count", FALSE)

\* s.replace("-", " ").title() on the labels in use
Title(s) ==
    CASE s = "article" -> "Article"
      [] s = "preprint" -> "Preprint"
      [] s = "Other" -> "Other"
      [] OTHER -> s

\* build_type_pie_chart folding one type too few into 'Other'
build_type_pie_chart_drops_one(works_df, categories, top_n) ==
    LET counts == value_counts(works_df, categories)
        folded == IF Len(counts) > top_n
                  THEN head(counts, top_n) \o <<[type |-> "Other", count |-> SumOf(iloc_from(counts, top_n + 1), "count")]>>
                  ELSE counts
    IN  [k \in 1..Len(folded) |-> [type |-> Title(folded[k].type), count |-> folded[k].count]]

\* summary_stats.py:176-203  the rows handed to px.pie; categories are the
\* categories of works_df["type"], which a filtered slice keeps from the
\* loaded table
build_type_pie_chart(works_df, categories, top_n) ==
    LET counts == value_counts(works_df, categories)
        folded == IF Len(counts) > top_n
                  THEN head(counts, top_n) \o <<[type |-> "Other", count |-> SumOf(iloc_from(counts, top_n), "count")]>>
                  ELSE counts
    IN  [k \in 1..Len(folded) |-> [type |-> Title(folded[k].type), count |-> folded[k].count]]

\* the outcome of a component: the exception it raised, or its data
Raised(exc) == [error |-> exc, data |-> <<>>]
Returns(data) == [error |-> NoError, data |-> data]

\* edges[edges["work_id"].isin(works_df["id"])]
FilteredEdges(edges, works_df) ==
    SelectSeq(edges, LAMBDA e : \E i \in 1..Len(works_df) : works_df[i].id = e.work_id)

\* the group keys of a groupby on categorical columns: pandas before 3.0
\* (observed=False) lists every category, pandas 3 only the values present
GroupbyObserved == BOOLEAN

\* a number with one decimal, in tenths; float('nan')
Tenths(n) == [tenths |-> n]
NaN == [nan |-> TRUE]

\* num/den rounded to the nearest integer, an exact half to the even one
RoundHalfEven(num, den) ==
    LET q == num \div den
        r == num % den
    IN  IF 2 * r > den \/ (2 * r = den /\ q % 2 = 1) THEN q + 1 ELSE q

RECURSIVE SumSeq(_)
SumSeq(s) == IF s = <<>> THEN 0 ELSE Head(s) + SumSeq(Tail(s))

\* round(column.mean() * scale, 1): the mean skips nulls and is nan when
\* every value is null
RoundedMean(column, scale) ==
    LET values == SelectSeq(column, LAMBDA v : ~IsNone(v))
    IN  IF values = <<>> THEN NaN
        ELSE Tenths(RoundHalfEven(10 * scale * SumSeq([k \in 1..Len(values) |-> Val(values[k])]),
                                  Len(values)))

\* True and False as the numbers mean() takes them for
AsNumber(cell) == IF IsNone(cell) THEN None ELSE Some(IF Val(cell) THEN 1 ELSE 0)

\* summary_stats.py:16-24  the numbers on the KPI cards; an edge table
\* written from no rows has no columns, and ["work_id"] raises on it
build_kpi_cards(works_df, country_edges_df) ==
    IF Len(country_edges_df) = 0 THEN Raised(KeyError("work_id"))
    ELSE Returns([total |-> Len(works_df),
                  avg_citations |-> IF Len(works_df) > 0
                                    THEN RoundedMean([i \in 1..Len(works_df) |-> works_df[i].cited_by_count], 1)
                                    ELSE Tenths(0),
                  oa_pct |-> IF Len(works_df) > 0
                             THEN RoundedMean([i \in 1..Len(works_df) |-> AsNumber(works_df[i].is_oa)], 100)
                             ELSE Tenths(0),
                  collab_countries |->
                      Cardinality({e.country_code : e \in Range(FilteredEdges(country_edges_df, works_df))})])

\* map_view.py:9-14  pycountry's alpha_2 -> alpha_3 for the codes in use
_iso2_to_iso3(code) ==
    CASE code = "CA" -> Some("CAN")
      [] code = "US" -> Some("USA")
      [] OTHER -> None

\* pycountry.countries.get(alpha_3=c).name
CountryName(iso3) ==
    CASE iso3 = "CAN" -> "Canada"
      [] iso3 = "USA" -> "United States"
      [] OTHER -> iso3

\* filtered_edges.groupby(["country_code"]).size().reset_index(name=...)
CountrySizes(filtered_edges, categories, observed) ==
    LET present == {filtered_edges[i].country_code : i \in 1..Len(filtered_edges)}
        keys == IF observed THEN Sorted(present) ELSE categories
    IN  [k \in 1..Len(keys) |->
            [country_code |-> keys[k],
             value |-> Cardinality({i \in 1..Len(filtered_edges) : filtered_edges[i].country_code = keys[k]})]]

\* ...groupby(["country_code"])["work_id"].nunique()...
CountryUniqueWorks(filtered_edges, categories, observed) ==
    LET present == {filtered_edges[i].country_code : i \in 1..Len(filtered_edges)}
        keys == IF observed THEN Sorted(present) ELSE categories
    IN  [k \in 1..Len(keys) |->
            [country_code |-> keys[k],
             value |-> Cardinality({e.work_id : e \in {f \in Range(filtered_edges) : f.country_code = keys[k]}})]]

\* _prepare_map_data without the dropna on iso3
_prepare_map_data_keeps_unmapped(works_df, country_edges_df, agg_metric, categories, observed) ==
    IF Len(country_edges_df) = 0 THEN Raised(KeyError("work_id"))
    ELSE LET filtered_edges == FilteredEdges(country_edges_df, works_df)
             agg == IF agg_metric = "works"
                    THEN CountrySizes(filtered_edges, categories, observed)
                    ELSE CountryUniqueWorks(filtered_edges, categories, observed)
         IN  IF filtered_edges = <<>> THEN Returns([agg |-> <<>>, value_col |-> ""])
             ELSE Returns([agg |-> [k \in 1..Len(agg) |->
                                      [country_code |-> agg[k].country_code, value |-> agg[k].value,
                                       iso3 |-> _iso2_to_iso3(agg[k].country_code),
                                       country_name |-> agg[k].country_code]],
                           value_col |-> IF agg_metric = "works" THEN "Co-authored Works" ELSE "Unique Works"])

\* map_view.py:16-41  categories are those of country_edges_df["country_code"]
_prepare_map_data(works_df, country_edges_df, agg_metric, categories, observed) ==
    IF Len(country_edges_df) = 0 THEN Raised(KeyError("work_id"))
    ELSE LET filtered_edges == FilteredEdges(country_edges_df, works_df)
             agg == IF agg_metric = "works"
                    THEN CountrySizes(filtered_edges, categories, observed)
                    ELSE CountryUniqueWorks(filtered_edges, categories, observed)
             mapped == SelectSeq(agg, LAMBDA r : ~IsNone(_iso2_to_iso3(r.country_code)))
         IN  IF filtered_edges = <<>> THEN Returns([agg |-> <<>>, value_col |-> ""])
             ELSE Returns([agg |-> [k \in 1..Len(mapped) |->
                                      [country_code |-> mapped[k].country_code, value |-> mapped[k].value,
                                       iso3 |-> _iso2_to_iso3(mapped[k].country_code),
                                       country_name |-> CountryName(Val(_iso2_to_iso3(mapped[k].country_code)))]],
                           value_col |-> IF agg_metric = "works" THEN "Co-authored Works" ELSE "Unique Works"])

\* df.tail(n)
tail(s, n) == SubSeq(s, IF Len(s) < n THEN 1 ELSE Len(s) - n + 1, Len(s))

\* map_view.py:76-94  the rows of the top-countries bar chart
build_top_countries_bar(works_df, country_edges_df, top_n, categories, observed) ==
    IF Len(country_edges_df) = 0 THEN Raised(KeyError("work_id"))
    ELSE LET filtered_edges == FilteredEdges(country_edges_df, works_df)
             counts == tail(sort_values(CountrySizes(filtered_edges, categories, observed), "value", TRUE), top_n)
         IN  IF filtered_edges = <<>> THEN Returns(<<>>)
             ELSE Returns([k \in 1..Len(counts) |->
                             [country_code |-> counts[k].country_code, works |-> counts[k].value,
                              country_name |-> IF IsNone(_iso2_to_iso3(counts[k].country_code))
                                               THEN counts[k].country_code
                                               ELSE CountryName(Val(_iso2_to_iso3(counts[k].country_code)))]])

\* network_view.py:12, :47-48
UOFT_NODE_ID == "University of Toronto"
MIN_PX == 15
MAX_PX == 65

\* a pixel size as the fraction num/den
Px(num, den) == [num |-> num, den |-> den]

\* the key triples of filtered.groupby(["source", "target", "target_country"]),
\* in the order pandas lists them (rows with a null key belong to no group)
EdgeKeys(filtered, targets, countries, observed) ==
    LET present == {<<Val(filtered[i].target), Val(filtered[i].target_country)>> :
                        i \in {j \in 1..Len(filtered) :
                                  ~IsNone(filtered[j].target) /\ ~IsNone(filtered[j].target_country)}}
        ts == IF observed THEN Sorted({p[1] : p \in present}) ELSE targets
        cs == IF observed THEN Sorted({p[2] : p \in present}) ELSE countries
        all == Concat([t \in 1..Len(ts) |-> [c \in 1..Len(cs) |-> <<ts[t], cs[c]>>]])
    IN  IF observed THEN SelectSeq(all, LAMBDA p : p \in present) ELSE all

\* ...size().reset_index(name="weight").sort_values("weight", ascending=False)
EdgeAgg(filtered, targets, countries, observed) ==
    LET keys == EdgeKeys(filtered, targets, countries, observed)
    IN  sort_values([k \in 1..Len(keys) |->
                        [source |-> UOFT_NAME, target |-> keys[k][1], target_country |-> keys[k][2],
                         weight |-> Cardinality({i \in 1..Len(filtered) :
                                        /\ filtered[i].target = Some(keys[k][1])
                                        /\ filtered[i].target_country = Some(keys[k][2])})]],
                    "weight", FALSE)

Max(S) == CHOOSE x \in S : \A y \in S : y <= x
Min(S) == CHOOSE x \in S : \A y \in S : x <= y

\* network_view.py:50-54
calculate_node_size(w, min_weight, max_weight) ==
    IF max_weight = min_weight THEN Px(MIN_PX + MAX_PX, 2)
    ELSE Px(MIN_PX * (max_weight - min_weight) + (w - min_weight) * (MAX_PX - MIN_PX),
            max_weight - min_weight)

\* network_view.py:57-93  the loop over edge_agg.iterrows(): a node the first
\* time a target is met, an edge for every row
RECURSIVE ElementsOf(_, _, _, _)
ElementsOf(rows, seen_nodes, min_weight, max_weight) ==
    IF rows = <<>> THEN <<>>
    ELSE LET row == Head(rows)
             node == [data |-> [id |-> row.target, label |-> row.target,
                                country |-> row.target_country,
                                size |-> calculate_node_size(row.weight, min_weight, max_weight),
                                works_count |-> row.weight, type |-> "institution"],
                      classes |-> "institution"]
             edge == [data |-> [source |-> UOFT_NODE_ID, target |-> row.target,
                                weight |-> row.weight, label |-> row.weight]]
         IN  (IF row.target \notin seen_nodes THEN <<node>> ELSE <<>>)
                 \o <<edge>>
                 \o ElementsOf(Tail(rows), seen_nodes \cup {row.target}, min_weight, max_weight)

HubNode ==
    [data |-> [id |-> UOFT_NODE_ID, label |-> "U of T", size |-> Px(75, 1), type |-> "hub"],
     classes |-> "hub"]

\* _build_cytoscape_elements drawing the edges of every row of edge_agg, not
\* only of the rows of the top targets
_build_cytoscape_elements_all_edges(institution_edges_df, works_df, top_n, targets, countries, observed) ==
    IF Len(institution_edges_df) = 0 THEN Raised(KeyError("work_id"))
    ELSE LET filtered == FilteredEdges(institution_edges_df, works_df)
             all_agg == EdgeAgg(filtered, targets, countries, observed)
             top_targets == {r.target : r \in Range(head(all_agg, top_n))}
             edge_agg == SelectSeq(all_agg, LAMBDA r : r.target \in top_targets)
             rest == SelectSeq(all_agg, LAMBDA r : r.target \notin top_targets)
             weights == {r.weight : r \in Range(edge_agg)}
         IN  IF filtered = <<>> THEN Returns(<<>>)
             ELSE IF edge_agg = <<>> THEN Returns(<<HubNode>>)
             ELSE Returns(<<HubNode>> \o ElementsOf(edge_agg, {UOFT_NODE_ID}, Min(weights), Max(weights))
                            \o [k \in 1..Len(rest) |->
                                   [data |-> [source |-> UOFT_NODE_ID, target |-> rest[k].target,
                                              weight |-> rest[k].weight, label |-> rest[k].weight]]])

\* network_view.py:15-93  targets and countries are the categories of the
\* target and target_country columns of institution_edges_df
_build_cytoscape_elements(institution_edges_df, works_df, top_n, targets, countries, observed) ==
    IF Len(institution_edges_df) = 0 THEN Raised(KeyError("work_id"))
    ELSE LET filtered == FilteredEdges(institution_edges_df, works_df)
             all_agg == EdgeAgg(filtered, targets, countries, observed)
             top_targets == {r.target : r \in Range(head(all_agg, top_n))}
             edge_agg == SelectSeq(all_agg, LAMBDA r : r.target \in top_targets)
             weights == {r.weight : r \in Range(edge_agg)}
         IN  IF filtered = <<>> THEN Returns(<<>>)
             ELSE IF edge_agg = <<>> THEN Returns(<<HubNode>>)
             ELSE Returns(<<HubNode>> \o ElementsOf(edge_agg, {UOFT_NODE_ID}, Min(weights), Max(weights)))

\* a share in percent as the fraction num/den
Pct(num, den) == [num |-> num, den |-> den]

\* the elements of a set of numbers in ascending order
Ascending(S) == [k \in 1..Cardinality(S) |-> CHOOSE y \in S : Cardinality({z \in S : z < y}) = k - 1]

\* the number of rows of works_df with top_concept c
ConceptCount(works_df, c) == Cardinality({i \in 1..Len(works_df) : works_df[i].top_concept = Some(c)})

\* trend_charts.py:82-87  works_df["top_concept"].value_counts().head(top_n)
\* .index.tolist(): the top_n most frequent disciplines; which of several
\* equally frequent ones make the cut is left to the sort
TopConcepts(works_df, top_n) ==
    LET present == {Val(works_df[i].top_concept) :
                       i \in {j \in 1..Len(works_df) : ~IsNone(works_df[j].top_concept)}}
        n == IF Cardinality(present) < top_n THEN Cardinality(present) ELSE top_n
    IN  {S \in SUBSET present :
            /\ Cardinality(S) = n
            /\ \A c \in S, d \in present \ S : ConceptCount(works_df, c) >= ConceptCount(works_df, d)}

\* trend_charts.py:88-99  the rows handed to px.area, given the list of top
\* disciplines: rows of other disciplines and rows without one are left out
\* before the groupby, whose keys skip rows without a year
build_field_share_over_time(works_df, top_concepts) ==
    LET plot_df == SelectSeq(works_df, LAMBDA r : ~IsNone(r.top_concept) /\ Val(r.top_concept) \in top_concepts)
        keyed == SelectSeq(plot_df, LAMBDA r : ~IsNone(r.year))
        years == Ascending({Val(keyed[i].year) : i \in 1..Len(keyed)})
        Count(y, c) == Cardinality({i \in 1..Len(keyed) :
                                      keyed[i].year = Some(y) /\ keyed[i].top_concept = Some(c)})
        total_per_year(y) == Cardinality({i \in 1..Len(keyed) : keyed[i].year = Some(y)})
        ConceptsIn(y) == Sorted({Val(keyed[i].top_concept) : i \in {j \in 1..Len(keyed) : keyed[j].year = Some(y)}})
    IN  Concat([k \in 1..Len(years) |->
                  [c \in 1..Len(ConceptsIn(years[k])) |->
                      [year |-> years[k], top_concept |-> ConceptsIn(years[k])[c],
                       count |-> Count(years[k], ConceptsIn(years[k])[c]),
                       share_pct |-> Pct(Count(years[k], ConceptsIn(years[k])[c]) * 100,
                                         total_per_year(years[k]))]]])

\* summary_stats.py:176, network_view.py:158, map_view.py:76  default top_n
PIE_TOP_N == 5
GRAPH_TOP_N == 40
BAR_TOP_N == 20

EmptyView == Returns([view |-> "No data matches the current filters."])

\* the first exception among the parts of a view, or the view
Assemble(view, parts) ==
    LET bad == {k \in 1..Len(parts) : parts[k].error # NoError}
    IN  IF bad = {} THEN Returns([view |-> view, parts |-> [k \in 1..Len(parts) |-> parts[k].data]])
        ELSE Raised(parts[CHOOSE k \in bad : \A j \in bad : k <= j].error)

\* summary_stats.py:222-247  (of its charts, the type donut)
render_summary_tab(works_df, tables) ==
    IF works_df = <<>> THEN EmptyView
    ELSE Assemble("overview",
                  <<Returns(build_type_pie_chart(works_df, Categories(tables.works, "type"), PIE_TOP_N))>>)

\* trend_charts.py:190-210
render_trends_tab(works_df) ==
    IF works_df = <<>> THEN EmptyView ELSE Assemble("trends", <<>>)

\* the categories of the country_code column: plain strings in the table
CountryCategories(country_edges) == Sorted({country_edges[i].country_code : i \in 1..Len(country_edges)})

\* map_view.py:120-148
render_map_tab(works_df, tables, observed) ==
    IF works_df = <<>> THEN EmptyView
    ELSE Assemble("map",
                  <<_prepare_map_data(works_df, tables.country_edges, "works",
                                      CountryCategories(tables.country_edges), observed),
                    build_top_countries_bar(works_df, tables.country_edges, BAR_TOP_N,
                                            CountryCategories(tables.country_edges), observed)>>)

\* network_view.py:299  the slider's value when the tab is first shown
SLIDER_VALUE == 40

\* render_network_tab with the graph cut to two institutions
render_network_tab_top_two(tables, works_df, observed) ==
    IF works_df = <<>> THEN EmptyView
    ELSE Assemble("network",
                  <<_build_cytoscape_elements(tables.institution_edges, works_df, 2,
                                              Categories(tables.institution_edges, "target"),
                                              Categories(tables.institution_edges, "target_country"),
                                              observed)>>)

\* network_view.py:255-325  (of its parts, the graph built by build_network_graph)
render_network_tab(tables, works_df, observed) ==
    IF works_df = <<>> THEN EmptyView
    ELSE Assemble("network",
                  <<_build_cytoscape_elements(tables.institution_edges, works_df, GRAPH_TOP_N,
                                              Categories(tables.institution_edges, "target"),
                                              Categories(tables.institution_edges, "target_country"),
                                              observed)>>)

\* callbacks.py:106-168
render_data_table(filtered) ==
    IF filtered = <<>> THEN EmptyView
    ELSE Assemble("table", <<Returns([i \in 1..Len(filtered) |-> filtered[i].id])>>)

\* callbacks.py:85-99
render_tab(active_tab, filtered, tables, observed) ==
    CASE active_tab = "overview" -> render_summary_tab(filtered, tables)
      [] active_tab = "trends" -> render_trends_tab(filtered)
      [] active_tab = "map" -> render_map_tab(filtered, tables, observed)
      [] active_tab = "network" -> render_network_tab(tables, filtered, observed)
      [] active_tab = "table" -> render_data_table(filtered)
      [] OTHER -> Returns([view |-> "Select a tab above."])

\* network_view.py:232-250
build_node_info_panel(tap_node_data) ==
    IF IsNone(tap_node_data) \/ Get(Val(tap_node_data), "type", "") = "hub"
    THEN [text |-> "Click on an institution node to see details."]
    ELSE [header |-> Get(Val(tap_node_data), "label", "Institution"),
          country |-> Get(Val(tap_node_data), "country", "N/A"),
          works |-> Get(Val(tap_node_data), "works_count", "N/A")]

\* the tables of the running dashboard process
Tables == [works |-> dash.works, country_edges |-> dash.country_edges,
           institution_edges |-> dash.institution_edges]

\* what the sidebar, the tab bar and the graph controls send in the view
\* specification; the graph's top_n is scaled to the few partners a table of
\* MaxWorks works has
ViewYearRanges == {<<2020, 2020>>, <<2021, 2021>>, <<2021, 2022>>, <<2022, 2024>>, <<2020, 2024>>}
ViewConceptSelections == {None, Some({"Biology"})}
ViewTypeSelections == {None, Some({"article"})}
ViewOaSelections == {None, Some({"oa"})}
\* layout.py:60-65  the tab_id of each dbc.Tab of the tab bar
tabs == <<"overview", "map", "network", "table">>
ActiveTabs == Range(tabs)
GraphTopNs == {1, 2, GRAPH_TOP_N}
PieTopNs == {1, PIE_TOP_N}
LayoutNames == {"cose", "circle", "concentric", "breadthfirst"}
TapNodeData ==
    {None, Some(HubNode.data),
     Some([id |-> "MIT", label |-> "MIT", country |-> "US", size |-> Px(40, 1),
           works_count |-> 2, type |-> "institution"])}

Filters == ViewYearRanges \X ViewConceptSelections \X ViewTypeSelections \X ViewOaSelections

\* the record of a callback invocation: its inputs, the slice apply_filters
\* gave it and what it returns
Invocation(callback, f, extra, observed, filtered, output) ==
    Some([callback |-> callback, year_range |-> f[1], selected_concepts |-> f[2], types |-> f[3],
          oa |-> f[4], extra |-> extra, observed |-> observed, filtered |-> filtered, output |-> output])

Filtered(f) == apply_filters(dash.works, f[1], f[2], f[3], f[4])

\* update_kpis keeping the filtered slice as the module's works table
UpdateKpis_rebinds_works ==
    /\ dash.pc = "up"
    /\ call = NoCall
    /\ \E f \in Filters :
          /\ call' = Invocation("update_kpis", f, None, TRUE, Filtered(f),
                                build_kpi_cards(Filtered(f), dash.country_edges))
          /\ dash' = [dash EXCEPT !.works = Filtered(f)]
    /\ UNCHANGED <<disk, engine, job, runs, checkpointOf>>

\* callbacks.py:58-70
UpdateKpis ==
    /\ dash.pc = "up"
    /\ call = NoCall
    /\ \E f \in Filters :
          call' = Invocation("update_kpis", f, None, TRUE, Filtered(f),
                             build_kpi_cards(Filtered(f), dash.country_edges))
    /\ UNCHANGED <<disk, engine, job, runs, checkpointOf, dash>>

\* callbacks.py:75-99
RenderTab ==
    /\ dash.pc = "up"
    /\ call = NoCall
    /\ \E f \in Filters, active_tab \in ActiveTabs, observed \in GroupbyObserved :
          call' = Invocation("render_tab", f, Some(active_tab), observed, Filtered(f),
                             render_tab(active_tab, Filtered(f), Tables, observed))
    /\ UNCHANGED <<disk, engine, job, runs, checkpointOf, dash>>

\* callbacks.py:188-203
UpdateNetworkElements ==
    /\ dash.pc = "up"
    /\ call = NoCall
    /\ \E f \in Filters, top_n \in GraphTopNs, observed \in GroupbyObserved :
          call' = Invocation("update_network_elements", f, Some(top_n), observed, Filtered(f),
                             _build_cytoscape_elements(dash.institution_edges, Filtered(f), top_n,
                                 Categories(dash.institution_edges, "target"),
                                 Categories(dash.institution_edges, "target_country"), observed))
    /\ UNCHANGED <<disk, engine, job, runs, checkpointOf, dash>>

\* callbacks.py:173-178
UpdateNodeInfo ==
    /\ dash.pc = "up"
    /\ call = NoCall
    /\ \E tap_data \in TapNodeData :
          call' = Some([callback |-> "update_node_info", extra |-> tap_data,
                        output |-> Returns(build_node_info_panel(tap_data))])
    /\ UNCHANGED <<disk, engine, job, runs, checkpointOf, dash>>

\* callbacks.py:181-186
UpdateNetworkLayout ==
    /\ dash.pc = "up"
    /\ call = NoCall
    /\ \E layout_name \in LayoutNames :
          call' = Some([callback |-> "update_network_layout", extra |-> Some(layout_name),
                        output |-> Returns([name |-> layout_name, animate |-> TRUE, animationDuration |-> 600])])
    /\ UNCHANGED <<disk, engine, job, runs, checkpointOf, dash>>

\* build_type_pie_chart applied to a filtered slice with a top_n of its range
BuildTypePieChart ==
    /\ dash.pc = "up"
    /\ call = NoCall
    /\ \E f \in Filters, top_n \in PieTopNs :
          call' = Invocation("build_type_pie_chart", f, Some(top_n), TRUE, Filtered(f),
                             Returns(build_type_pie_chart(Filtered(f), Categories(dash.works, "type"), top_n)))
    /\ UNCHANGED <<disk, engine, job, runs, checkpointOf, dash>>

\* trend_charts.py:77  default top_n
FIELD_TOP_N == 8
ShareTopNs == {1, FIELD_TOP_N}

\* build_field_share_over_time applied to a filtered slice with a top_n of
\* its range
BuildFieldShareOverTime ==
    /\ dash.pc = "up"
    /\ call = NoCall
    /\ \E f \in Filters, top_n \in ShareTopNs :
       \E top_concepts \in TopConcepts(Filtered(f), top_n) :
          call' = Invocation("build_field_share_over_time", f, Some(top_n), TRUE, Filtered(f),
                             Returns(build_field_share_over_time(Filtered(f), top_concepts)))
    /\ UNCHANGED <<disk, engine, job, runs, checkpointOf, dash>>

\* the dashboard is started after a full_refresh that completed
ViewsInit ==
    /\ engine \in Engines
    /\ \E answer \in SeqsUpTo(ViewCorpus, MaxWorks) :
       \E out \in RefreshOutputs(answer) :
          /\ disk = [p \in Paths |->
                        IF p = RawPath THEN Some(RawFrame(answer))
                        ELSE Some(out[CHOOSE i \in 1..3 : p = PathOf(ProcessedFiles[i])])]
          /\ job = [kind |-> "refresh", pc |-> "done", raw |-> answer, df |-> out[1],
                    country_df |-> out[2], inst_df |-> out[3], fetch_calls |-> 1,
                    failed_at |-> "", error |-> ""]
          /\ checkpointOf = answer
    /\ runs = 1
    /\ dash = DashDown
    /\ call = NoCall

ViewsNext ==
    \/ LayoutImport
    \/ CallbacksImport
    \/ UpdateKpis
    \/ RenderTab
    \/ UpdateNetworkElements
    \/ UpdateNodeInfo
    \/ UpdateNetworkLayout
    \/ BuildTypePieChart
    \/ BuildFieldShareOverTime
    \/ Respond

SpecViews == ViewsInit /\ [][ViewsNext]_vars

----------------------------------------------------------------------------
(* Claims about the views (SpecViews) *)

Called(callback) == call # NoCall /\ Val(call).callback = callback

\* the donuts in the current invocation's result, each with its top_n
PiesShown ==
    IF Called("build_type_pie_chart")
    THEN {[slices |-> Val(call).output.data, top_n |-> Val(Val(call).extra)]}
    ELSE IF Called("render_tab") /\ Val(call).extra = Some("overview")
            /\ Val(call).output.error = NoError /\ Val(call).filtered # <<>>
         THEN {[slices |-> Val(call).output.data.parts[1], top_n |-> PIE_TOP_N]}
         ELSE {}

\* C11: the slice counts of build_type_pie_chart are non-negative and sum to
\* the number of filtered works that have a type, folded into 'Other' or
\* not, and there are at most top_n + 1 slices
C11_PieCountsSum ==
    \A pie \in PiesShown :
        /\ \A k \in 1..Len(pie.slices) : pie.slices[k].count >= 0
        /\ SumOf(pie.slices, "count") =
              Cardinality({i \in 1..Len(Val(call).filtered) : ~IsNone(Val(call).filtered[i].type)})
        /\ Len(pie.slices) <= pie.top_n + 1

\* a donut whose types beyond top_n were folded into an 'Other' slice that
\* stands for a work
C11_Witness ==
    \E pie \in PiesShown :
        /\ Len(pie.slices) = pie.top_n + 1
        /\ pie.slices[Len(pie.slices)].type = "Other"
        /\ pie.slices[Len(pie.slices)].count >= 1

\* the choropleth data in the current invocation's result
MapsShown ==
    IF Called("render_tab") /\ Val(call).extra = Some("map")
       /\ Val(call).output.error = NoError /\ Val(call).filtered # <<>>
    THEN {Val(call).output.data.parts[1].agg}
    ELSE {}

\* the country-edge rows of the filtered works
SliceCountryEdges == FilteredEdges(dash.country_edges, Val(call).filtered)

\* C12 as claimed: the values of _prepare_map_data (agg_metric 'works') are
\* non-negative and sum to the number of country-edge rows whose work_id is
\* among the filtered works
C12_MapValuesSumToEdges ==
    \A agg \in MapsShown :
        /\ \A k \in 1..Len(agg) : agg[k].value >= 0
        /\ SumOf(agg, "value") = Len(SliceCountryEdges)

\* C12 amended: the values are non-negative and sum to the number of those
\* rows whose country code pycountry maps to an ISO-3 code
C12_MapValuesSumToMappedEdges ==
    \A agg \in MapsShown :
        /\ \A k \in 1..Len(agg) : agg[k].value >= 0
        /\ SumOf(agg, "value") =
              Len(SelectSeq(SliceCountryEdges, LAMBDA e : ~IsNone(_iso2_to_iso3(e.country_code))))

\* a map over two countries while the slice also has an edge to a country
\* without ISO-3 code
C12_Witness ==
    \E agg \in MapsShown :
        /\ SumOf(agg, "value") >= 2
        /\ Cardinality({agg[k].country_code : k \in {j \in 1..Len(agg) : agg[j].value > 0}}) >= 2
        /\ \E e \in Range(SliceCountryEdges) : IsNone(_iso2_to_iso3(e.country_code))

TabNames == {"overview", "trends", "map", "network", "table", "collaborations", "about"}
HandledTabs ==
    {t \in TabNames : render_tab(t, <<>>, Tables, TRUE) # Returns([view |-> "Select a tab above."])}

\* C14 as claimed: the tab bar of the running dashboard offers five tabs,
\* one for each view render_tab can produce (overview, trends, map, network,
\* table)
C14_FiveTabViews ==
    dash.pc = "up" =>
        /\ Range(tabs) = HandledTabs
        /\ Cardinality(Range(tabs)) = 5

----------------------------------------------------------------------------
(* The concept ranking on its own: a refresh about to transform one work     *)
(* whose concept list is any list of up to MaxConcepts concepts              *)

MaxConcepts == 6

\* a concept that ties with Genetics
Ecology == Concept("Ecology", 1, 60)

ConceptPool == {Biology, Genetics, Ecology, CompSci}

ConceptFields ==
    {[concepts |-> Some(l)] : l \in SeqsUpTo(ConceptPool, MaxConcepts)}
        \cup {[concepts |-> None], EmptyDict}

ConceptCorpus ==
    {Merge(Merge(BaseWork("W1", Some(2020), Some("article"), 1),
                 [open_access |-> Some([is_oa |-> Some(TRUE), oa_status |-> Some("gold")]),
                  authorships |-> Some(<<Author(<<UofT>>), Author(<<MIT>>)>>)]), f) :
        f \in ConceptFields}

ConceptsInit ==
    /\ engine \in Engines
    /\ \E w \in ConceptCorpus :
          /\ job = [NoJob EXCEPT !.kind = "refresh", !.pc = "transform",
                                 !.raw = <<w>>, !.fetch_calls = 1]
          /\ disk = save_raw([p \in Paths |-> None], <<w>>, RAW_FILE)
          /\ checkpointOf = <<w>>
    /\ runs = 1
    /\ dash = DashDown
    /\ call = NoCall

SpecConcepts == ConceptsInit /\ [][TransformNext]_vars

\* the concept list of raw record w, empty when absent or null
ConceptsOf(w) == IF IsNone(Get(w, "concepts", None)) THEN <<>> ELSE Val(w.concepts)

\* the place of concepts[j] when the list is ranked by score, highest first,
\* equal scores in input order
RankOf(concepts, j) ==
    1 + Cardinality({i \in 1..Len(concepts) : Val(concepts[i].score) > Val(concepts[j].score)})
      + Cardinality({i \in 1..(j - 1) : Val(concepts[i].score) = Val(concepts[j].score)})

SliceIds == {Val(call).filtered[i].id : i \in 1..Len(Val(call).filtered)}

\* the edge rows of those works
SliceInstitutionEdges == {e \in Range(dash.institution_edges) : e.work_id \in SliceIds}

\* the graphs in the current invocation's result
GraphsShown ==
    IF Called("update_network_elements") /\ Val(call).output.error = NoError
    THEN {Val(call).output.data}
    ELSE IF Called("render_tab") /\ Val(call).extra = Some("network")
            /\ Val(call).output.error = NoError /\ Val(call).filtered # <<>>
         THEN {Val(call).output.data.parts[1]}
         ELSE {}

\* the top-countries bars in the current invocation's result
BarsShown ==
    IF Called("render_tab") /\ Val(call).extra = Some("map")
       /\ Val(call).output.error = NoError /\ Val(call).filtered # <<>>
    THEN {Val(call).output.data.parts[2]}
    ELSE {}

IsNode(el) == "classes" \in DOMAIN el
IsEdge(el) == "classes" \notin DOMAIN el

\* C19 as claimed: the KPI count of collaborating countries, the choropleth
\* and top-countries rows and the network elements come only from edge rows
\* whose work_id is the id of a work apply_filters returned: every country
\* or institution shown has such an edge row
C19_AggregatesRespectSlice ==
    /\ (Called("update_kpis") /\ Val(call).output.error = NoError) =>
          Val(call).output.data.collab_countries =
              Cardinality({e.country_code : e \in {f \in Range(dash.country_edges) : f.work_id \in SliceIds}})
    /\ \A agg \in MapsShown : \A k \in 1..Len(agg) :
          \E e \in Range(dash.country_edges) :
              e.work_id \in SliceIds /\ e.country_code = agg[k].country_code
    /\ \A bar \in BarsShown : \A k \in 1..Len(bar) :
          \E e \in Range(dash.country_edges) :
              e.work_id \in SliceIds /\ e.country_code = bar[k].country_code
    /\ \A graph \in GraphsShown : \A k \in 1..Len(graph) :
          /\ (IsNode(graph[k]) /\ graph[k].classes = "institution") =>
                \E e \in SliceInstitutionEdges : e.target = Some(graph[k].data.id)
          /\ IsEdge(graph[k]) =>
                \E e \in SliceInstitutionEdges : e.target = Some(graph[k].data.target)

Nodes(graph) == {k \in 1..Len(graph) : IsNode(graph[k])}
Edges(graph) == {k \in 1..Len(graph) : IsEdge(graph[k])}
InstitutionNodes(graph) == {k \in Nodes(graph) : graph[k].classes = "institution"}

\* C20: a non-empty element list of _build_cytoscape_elements is a star:
\* exactly one hub node, node ids all distinct, every edge from the hub to an
\* institution node of the list, every institution node with an edge
C20_StarGraph ==
    \A graph \in GraphsShown :
        graph # <<>> =>
            /\ Cardinality({k \in Nodes(graph) : graph[k].classes = "hub"}) = 1
            /\ \A k, l \in Nodes(graph) : graph[k].data.id = graph[l].data.id => k = l
            /\ \A k \in Edges(graph) :
                  /\ \E h \in Nodes(graph) :
                        graph[h].classes = "hub" /\ graph[h].data.id = graph[k].data.source
                  /\ \E n \in InstitutionNodes(graph) : graph[n].data.id = graph[k].data.target
            /\ \A n \in InstitutionNodes(graph) :
                  \E k \in Edges(graph) : graph[k].data.target = graph[n].data.id

\* a graph cut to its top targets, with more than one institution and an
\* institution met on more than one row of edge_agg
C20_Witness ==
    /\ Called("update_network_elements")
    /\ Val(Val(call).extra) < Cardinality({e.target : e \in SliceInstitutionEdges})
    /\ \E graph \in GraphsShown :
          /\ Cardinality(InstitutionNodes(graph)) >= 2
          /\ Cardinality(Edges(graph)) > Cardinality(InstitutionNodes(graph))

----------------------------------------------------------------------------
(* Claims about the network graph (SpecViews) *)

\* the top_n the graph of the current invocation was built with: the slider
\* value of update_network_elements, build_network_graph's default otherwise
GraphTopN ==
    IF Called("update_network_elements") THEN Val(Val(call).extra) ELSE GRAPH_TOP_N

\* the institution-edge rows of the filtered works, one per authorship entry
SliceEdgeRows == FilteredEdges(dash.institution_edges, Val(call).filtered)

\* the partners named on those rows
SliceTargets == {Val(SliceEdgeRows[i].target) : i \in 1..Len(SliceEdgeRows)}

\* the co-authorship weight of partner t in the slice: its edge rows
SliceWeight(t) == Cardinality({i \in 1..Len(SliceEdgeRows) : SliceEdgeRows[i].target = Some(t)})

\* the works of the slice written with partner t
SliceWorksWith(t) == {SliceEdgeRows[i].work_id : i \in {j \in 1..Len(SliceEdgeRows) : SliceEdgeRows[j].target = Some(t)}}

ShownTargets(graph) == {graph[n].data.id : n \in InstitutionNodes(graph)}

\* C21 as claimed: for any top_n the element list has at most top_n
\* institution nodes besides the hub, and every institution shown has a
\* co-authorship weight greater than or equal to that of every institution
\* with edges in the filtered slice that is not shown
C21_TopNLimit ==
    \A graph \in GraphsShown :
        /\ Cardinality(InstitutionNodes(graph)) <= GraphTopN
        /\ \A shown \in ShownTargets(graph) : \A hidden \in SliceTargets \ ShownTargets(graph) :
              SliceWeight(shown) >= SliceWeight(hidden)

\* comparisons of pixel sizes kept as fractions (denominators are positive)
PxLeq(a, b) == a.num * b.den <= b.num * a.den
PxIs(a, n) == a.num = n * a.den

\* the weights on the institution nodes of a graph
ShownWeights(graph) == {graph[n].data.works_count : n \in InstitutionNodes(graph)}

\* C22 as claimed: node sizes are a min-max normalisation of weight onto
\* [15, 65]: every institution node's size lies in 15..65, an institution
\* with the largest displayed weight gets 65 and one with the smallest 15,
\* size is non-decreasing in weight, and when all displayed weights are
\* equal every node gets 40
C22_NodeSizesMinMax ==
    \A graph \in GraphsShown :
        /\ \A n \in InstitutionNodes(graph) :
              /\ graph[n].data.size.den > 0
              /\ PxLeq(Px(MIN_PX, 1), graph[n].data.size)
              /\ PxLeq(graph[n].data.size, Px(MAX_PX, 1))
        /\ \A n, m \in InstitutionNodes(graph) :
              graph[n].data.works_count <= graph[m].data.works_count =>
                  PxLeq(graph[n].data.size, graph[m].data.size)
        /\ \A n \in InstitutionNodes(graph) :
              IF Cardinality(ShownWeights(graph)) = 1
              THEN PxIs(graph[n].data.size, 40)
              ELSE /\ graph[n].data.works_count = Max(ShownWeights(graph)) =>
                         PxIs(graph[n].data.size, MAX_PX)
                   /\ graph[n].data.works_count = Min(ShownWeights(graph)) =>
                         PxIs(graph[n].data.size, MIN_PX)

\* C23 as claimed: for every institution node T of the network, works_count
\* (the 'Co-authored Works' of the detail panel) and the weight of the
\* hub-to-T edge equal the number of distinct works of the filtered slice
\* that have T as a collaborating institution
C23_WorksCountIsDistinctWorks ==
    \A graph \in GraphsShown :
        /\ \A n \in InstitutionNodes(graph) :
              /\ graph[n].data.works_count = Cardinality(SliceWorksWith(graph[n].data.id))
              /\ build_node_info_panel(Some(graph[n].data)).works =
                    Cardinality(SliceWorksWith(graph[n].data.id))
        /\ \A k \in Edges(graph) :
              graph[k].data.weight = Cardinality(SliceWorksWith(graph[k].data.target))

----------------------------------------------------------------------------
(* Claims about empty slices (SpecViews) *)

\* the current invocation filtered the works table down to nothing
EmptySlice == call # NoCall /\ "filtered" \in DOMAIN Val(call) /\ Val(call).filtered = <<>>

\* C24 as claimed: an empty filter result never raises: update_kpis returns
\* cards showing 0 publications, 0 average citations, 0% open access and 0
\* countries, render_tab returns the 'No data matches the current filters.'
\* message for each of the tab ids overview, trends, map, network and table,
\* and update_network_elements returns an empty element list
C24_EmptySliceNeverRaises ==
    /\ (EmptySlice /\ Called("update_kpis")) =>
          Val(call).output =
              Returns([total |-> 0, avg_citations |-> Tenths(0), oa_pct |-> Tenths(0),
                       collab_countries |-> 0])
    /\ (EmptySlice /\ Called("render_tab")) =>
          /\ Val(call).output = EmptyView
          /\ \A active_tab \in {"overview", "trends", "map", "network", "table"} :
                render_tab(active_tab, Val(call).filtered, Tables, Val(call).observed) = EmptyView
    /\ (EmptySlice /\ Called("update_network_elements")) =>
          Val(call).output = Returns(<<>>)

----------------------------------------------------------------------------
(* Claims about the trend charts (SpecViews) *)

\* the field-share rows in the current invocation's result
SharesShown ==
    IF Called("build_field_share_over_time") THEN {Val(call).output.data} ELSE {}

\* the filtered works of year y, and those of them with top_concept d
WorksOfYear(y) == {i \in 1..Len(Val(call).filtered) : Val(call).filtered[i].year = Some(y)}
WorksOfYearIn(y, d) == {i \in WorksOfYear(y) : Val(call).filtered[i].top_concept = Some(d)}

\* C25 as claimed: for every year y and plotted discipline d, share_pct(d, y)
\* equals 100 times the number of filtered works of year y with top_concept
\* d, divided by the number of all filtered works of year y
C25_ShareOfAnnualOutput ==
    \A share \in SharesShown : \A k \in 1..Len(share) :
        share[k].share_pct.num * Cardinality(WorksOfYear(share[k].year)) =
            100 * Cardinality(WorksOfYearIn(share[k].year, share[k].top_concept)) * share[k].share_pct.den

----------------------------------------------------------------------------
(* Claims about the graph controls (SpecViews) *)

\* what update_network_elements answers for the inputs of the current
\* invocation and the slider at top_n
SliderElements(top_n) ==
    _build_cytoscape_elements(dash.institution_edges, Val(call).filtered, top_n,
                              Categories(dash.institution_edges, "target"),
                              Categories(dash.institution_edges, "target_country"),
                              Val(call).observed)

----------------------------------------------------------------------------
(* The dashboard process and the ETL side by side: the dashboard is started  *)
(* on the files of a completed refresh while another ETL run may be under    *)
(* way                                                                       *)

\* the works the API serves in this specification
LiveCorpus == {WorkA, WorkB}

\* layout.py:27, :33-38, :41-50, :56  the values the sidebar starts with
InitialFilters == <<<<2020, 2024>>, None, None, Some({})>>

\* callbacks.py:58-70  update_kpis as the page calls it when it is loaded
InitialKpis ==
    /\ dash.pc = "up"
    /\ call = NoCall
    /\ call' = Invocation("update_kpis", InitialFilters, None, TRUE, Filtered(InitialFilters),
                          build_kpi_cards(Filtered(InitialFilters), dash.country_edges))
    /\ UNCHANGED <<disk, engine, job, runs, checkpointOf, dash>>

LiveInit ==
    /\ engine \in Engines
    /\ \E answer \in SeqsUpTo(LiveCorpus, MaxWorks) :
       \E out \in RefreshOutputs(answer) :
          /\ disk = [p \in Paths |->
                        IF p = RawPath THEN Some(RawFrame(answer))
                        ELSE Some(out[CHOOSE i \in 1..3 : p = PathOf(ProcessedFiles[i])])]
          /\ job = [kind |-> "refresh", pc |-> "done", raw |-> answer, df |-> out[1],
                    country_df |-> out[2], inst_df |-> out[3], fetch_calls |-> 1,
                    failed_at |-> "", error |-> ""]
          /\ checkpointOf = answer
    /\ runs = 1
    /\ dash = DashDown
    /\ call = NoCall

LiveNext ==
    \/ StartRefresh
    \/ StartRecovery
    \/ FetchWorks(LiveCorpus)
    \/ SaveRaw
    \/ ReadRaw
    \/ TransformWorks
    \/ BuildCountryEdges
    \/ BuildInstitutionEdges
    \/ SaveWorks
    \/ SaveCountryEdges
    \/ SaveInstitutionEdges
    \/ Crash
    \/ LayoutImport
    \/ CallbacksImport
    \/ InitialKpis
    \/ Respond

SpecLive == LiveInit /\ [][LiveNext]_vars

----------------------------------------------------------------------------
(* Claims about the running dashboard and the ETL (SpecLive) *)

\* what the running dashboard displays from: the sidebar options and the
\* tables its callbacks filter
Displayed == <<dash.years, dash.concepts, dash.works, dash.country_edges, dash.institution_edges>>

\* C27 as claimed: the dashboard reads the processed tables once, at
\* startup, and the layout and every callback use that one copy: no step of
\* a full_refresh or run_recovery changes what a running dashboard displays
\* from, a callback filters the loaded works table, and the sidebar options
\* (years, concepts) are those of the very tables the callbacks filter
C27_SingleLoadedCopy ==
    [][/\ (dash.pc = "up" /\ dash'.pc = "up") => Displayed' = Displayed
       /\ (dash'.pc = "up" /\ call' # NoCall) =>
             Val(call').filtered = apply_filters(dash'.works, InitialFilters[1], InitialFilters[2],
                                                 InitialFilters[3], InitialFilters[4])
       /\ dash'.pc = "up" =>
             /\ dash'.years = YearsOf(dash'.works)
             /\ dash'.concepts = ConceptNamesOf(dash'.works)]_vars

====
